---------------------------- MODULE Spec2Model ----------------------------
(***************************************************************************)
(* State-machine model of the app_review_search search core:               *)
(*   - the App table (core/models.py) and the writes that reach it,        *)
(*   - the TF-IDF artifact pair written by the initialize_tfidf command,   *)
(*   - the process globals tfidf_vectorizer / tfidf_matrix set by          *)
(*     CoreConfig.ready(),                                                  *)
(*   - the two search handlers (AppSearchResultsView, AppListAPIView),     *)
(*   - the two suggestion handlers (search_suggestions,                    *)
(*     AppSuggestionsAPIView).                                             *)
(*                                                                         *)
(* Strings are sequences of code points (97 = "a", 65 = "A", 32 = " ").    *)
(* Similarities are fixed-point numbers in units of 1/10000, idf weights   *)
(* in units of 1/1000.                                                     *)
(***************************************************************************)
EXTENDS Integers, Sequences, FiniteSets, TLC

VARIABLES
    catalog,            \* rows of core_app in primary-key order: <<[id, name], ...>>
    next_id,            \* the next value of the auto-increment primary key
    writes,             \* number of catalog writes performed so far
    vec_file,           \* data/tfidf_vectorizer.pkl
    mat_file,           \* data/tfidf_matrix.pkl
    cmd,                \* the running initialize_tfidf command (its position and locals)
    builds,             \* number of initialize_tfidf runs started so far
    started,            \* whether the current serving process has run ready()
    starts,             \* number of serving processes started so far
    tfidf_vectorizer,   \* core.apps.tfidf_vectorizer as imported by the views
    tfidf_matrix,       \* core.apps.tfidf_matrix as imported by the views
    load_saw,           \* history: what the last ready() found in the two files
    reviews,            \* rows of core_review: a set of [id, app, user, is_approved]
    moderation,         \* review bookkeeping: next id, operations so far, and history
    resp                \* the response of the request being answered, or NoResp

vars == <<catalog, next_id, writes, vec_file, mat_file, cmd, builds,
          started, starts, tfidf_vectorizer, tfidf_matrix, load_saw,
          reviews, moderation, resp>>

-----------------------------------------------------------------------------
(* Bounds of the model.                                                    *)

MaxWrites == 2
MaxBuilds == 2
MaxStarts == 2
MaxPermLen == 2
MaxPageSize == 3
MaxReviewOps == 3
BulkSize == 52

-----------------------------------------------------------------------------
(* Program constants.                                                      *)

\* `if sim > 0.001`, in units of 1/10000
MainThreshold == 10
\* `similar_apps_with_scores[:50 - len(results_list)]`
ResultCap == 50
\* `paginate_by = 10`
paginate_by == 10

\* `if query and len(query) >= 3` of search_suggestions
MinSuggestLen == 3

\* `if len(query) <= 4`: the longest query answered by substring match alone
ShortSuggestLen == 4

\* the slice [:10] of every suggestion path
SuggestCap == 10

\* `if sim >= 0.1` of search_suggestions, in units of 1/10000
WebSuggestThreshold == 1000

\* `sim >= 0.001` of AppSuggestionsAPIView.get_queryset, in units of 1/10000
ApiSuggestThreshold == 10

-----------------------------------------------------------------------------
(* Generic sequence helpers.                                               *)

Range(s) == {s[i] : i \in 1..Len(s)}

Min2(a, b) == IF a <= b THEN a ELSE b

\* s[:n] of Python for n >= 0 or n < 0 clipped at 0
Take(s, n) == IF n <= 0 THEN <<>> ELSE SubSeq(s, 1, Min2(n, Len(s)))

\* s[a:b] of Python for 0 <= a
Slice(s, a, b) == IF a >= Min2(b, Len(s)) THEN <<>> ELSE SubSeq(s, a + 1, Min2(b, Len(s)))

Contains(s, x) == \E i \in 1..Len(s) : s[i] = x

RECURSIVE SumOver(_, _)
SumOver(f, S) ==
    IF S = {} THEN 0
    ELSE LET x == CHOOSE y \in S : TRUE IN f[x] + SumOver(f, S \ {x})

RECURSIVE Orderings(_)
Orderings(S) ==
    IF S = {} THEN {<<>>}
    ELSE UNION {{<<x>> \o p : p \in Orderings(S \ {x})} : x \in S}

\* the sequence f[1], ..., f[n], each element evaluated once
Tabulate(f, n) == SubSeq(f, 1, n)

Reverse(s) == [i \in 1..Len(s) |-> s[Len(s) + 1 - i]]

\* the elements of s at the positions P, in the order of s
Pick(s, P) ==
    LET n    == Len(s)
        rank == Tabulate([i \in 1..n |-> Cardinality({j \in P : j < i})], n)
    IN Tabulate([k \in 1..Cardinality(P) |-> s[CHOOSE i \in P : rank[i] = k - 1]],
                Cardinality(P))

-----------------------------------------------------------------------------
(* Strings: str.strip(), str.lower(), the ORM's iexact / icontains lookups *)
(* and ORDER BY name.                                                      *)

IsSpace(c) == c = 32

IsWord(c) == (c >= 48 /\ c <= 57) \/ (c >= 65 /\ c <= 90) \/ (c >= 97 /\ c <= 122) \/ c = 95

Lower(c) == IF c >= 65 /\ c <= 90 THEN c + 32 ELSE c

LowerStr(s) == [i \in 1..Len(s) |-> Lower(s[i])]

RECURSIVE LStrip(_)
LStrip(s) == IF s # <<>> /\ IsSpace(Head(s)) THEN LStrip(Tail(s)) ELSE s

\* Strip that leaves the value of the q parameter as it is
StripNothing(s) == s

RECURSIVE RStrip(_)
RStrip(s) == IF s # <<>> /\ IsSpace(s[Len(s)]) THEN RStrip(SubSeq(s, 1, Len(s) - 1)) ELSE s

Strip(s) == RStrip(LStrip(s))

\* name__iexact = q
IExact(name, q) == LowerStr(name) = LowerStr(q)

\* name__icontains = q
IContains(name, q) ==
    \E i \in 0..(Len(name) - Len(q)) :
        LowerStr(SubSeq(name, i + 1, i + Len(q))) = LowerStr(q)

\* a < b in code-point order (ORDER BY name under a binary collation)
RECURSIVE StrLess(_, _)
StrLess(a, b) ==
    IF b = <<>> THEN FALSE
    ELSE IF a = <<>> THEN TRUE
    ELSE IF Head(a) # Head(b) THEN Head(a) < Head(b)
    ELSE StrLess(Tail(a), Tail(b))

\* the elements of a set of strings in ascending order
SortStrings(S) ==
    LET ranked == {<<Cardinality({y \in S : StrLess(y, x)}), x>> : x \in S}
    IN Tabulate([k \in 1..Cardinality(S) |-> (CHOOSE p \in ranked : p[1] = k - 1)[2]],
                Cardinality(S))

-----------------------------------------------------------------------------
(* TfidfVectorizer with its defaults: lowercase, tokens are the maximal    *)
(* runs of two or more word characters, smooth idf, l2 normalisation.      *)

\* round(1000 * ln k) for k = 1..64
LnMilli ==
    <<0, 693, 1099, 1386, 1609, 1792, 1946, 2079, 2197, 2303, 2398, 2485,
      2565, 2639, 2708, 2773, 2833, 2890, 2944, 2996, 3045, 3091, 3135, 3178,
      3219, 3258, 3296, 3332, 3367, 3401, 3434, 3466, 3497, 3526, 3555, 3584,
      3611, 3638, 3664, 3689, 3714, 3738, 3761, 3784, 3807, 3829, 3850, 3871,
      3892, 3912, 3932, 3951, 3970, 3989, 4007, 4025, 4043, 4060, 4078, 4094,
      4111, 4127, 4143, 4159>>

\* floor(sqrt(n)) by bisection on lo..hi
RECURSIVE ISqrtIn(_, _, _)
ISqrtIn(n, lo, hi) ==
    IF lo >= hi THEN lo
    ELSE LET mid == (lo + hi + 1) \div 2
         IN IF mid * mid <= n THEN ISqrtIn(n, mid, hi) ELSE ISqrtIn(n, lo, mid - 1)

ISqrt(n) == ISqrtIn(n, 0, 46340)

\* re.findall(r"(?u)\b\w\w+\b", doc.lower()): scan from position i, cur is the
\* run of word characters read so far
RECURSIVE TokenScan(_, _, _)
TokenScan(s, i, cur) ==
    IF i > Len(s)
    THEN IF Len(cur) >= 2 THEN <<cur>> ELSE <<>>
    ELSE IF IsWord(s[i])
         THEN TokenScan(s, i + 1, Append(cur, s[i]))
         ELSE (IF Len(cur) >= 2 THEN <<cur>> ELSE <<>>) \o TokenScan(s, i + 1, <<>>)

Tokenize(doc) == TokenScan(LowerStr(doc), 1, <<>>)

\* term counts of a document
TermCount(tokens, t) == Cardinality({i \in 1..Len(tokens) : tokens[i] = t})

\* TfidfVectorizer().fit(app_names): the sorted vocabulary and the idf of each
\* term, idf = ln((1 + n) / (1 + df)) + 1; "error" when the vocabulary is empty
fit(app_names) ==
    LET docs  == Tabulate([i \in 1..Len(app_names) |-> Range(Tokenize(app_names[i]))],
                          Len(app_names))
        terms == UNION {docs[i] : i \in 1..Len(docs)}
        vocab == SortStrings(terms)
        n     == Len(app_names)
        df(t) == Cardinality({i \in 1..n : t \in docs[i]})
    IN IF terms = {} THEN [kind |-> "error"]
       ELSE [kind |-> "vectorizer",
             vocabulary |-> vocab,
             idf |-> [j \in 1..Len(vocab) |->
                         LnMilli[1 + n] - LnMilli[1 + df(vocab[j])] + 1000]]

\* one l2-normalised row of vectorizer.transform: a sparse vector, column -> weight
TransformDoc(vectorizer, doc) ==
    LET tokens == Tokenize(doc)
        cols   == {j \in 1..Len(vectorizer.vocabulary) :
                      Contains(tokens, vectorizer.vocabulary[j])}
        raw    == [j \in cols |->
                      TermCount(tokens, vectorizer.vocabulary[j]) * vectorizer.idf[j]]
        sq     == [j \in cols |-> raw[j] * raw[j]]
        norm   == ISqrt(SumOver(sq, cols))
    IN [j \in cols |-> (raw[j] * 10000) \div norm]

\* vectorizer.transform(docs): a sparse matrix with one row per document
\* transform whose row order depends on the run: the second run of the
\* command lays the rows out in reverse
transform_by_run(vectorizer, docs) ==
    [kind  |-> "matrix",
     ncols |-> Len(vectorizer.vocabulary),
     rows  |-> Tabulate([i \in 1..Len(docs) |->
                           TransformDoc(vectorizer,
                                        IF builds = 1 THEN Reverse(docs)[i] ELSE docs[i])],
                        Len(docs))]

transform(vectorizer, docs) ==
    [kind  |-> "matrix",
     ncols |-> Len(vectorizer.vocabulary),
     rows  |-> Tabulate([i \in 1..Len(docs) |-> TransformDoc(vectorizer, docs[i])],
                        Len(docs))]

\* the dot product of two sparse rows, in units of 1/10000
Dot(u, v) ==
    LET common == DOMAIN u \cap DOMAIN v
        prod   == [j \in common |-> u[j] * v[j]]
    IN SumOver(prod, common) \div 10000

\* linear_kernel(query_vec, tfidf_matrix).flatten(): raises when the shapes do
\* not agree, else gives one similarity per matrix row
linear_kernel(query_vec, matrix) ==
    IF query_vec.ncols # matrix.ncols
    THEN [raised |-> TRUE, sims |-> <<>>]
    ELSE [raised |-> FALSE,
          sims |-> Tabulate([i \in 1..Len(matrix.rows) |->
                                Dot(query_vec.rows[1], matrix.rows[i])], Len(matrix.rows))]


-----------------------------------------------------------------------------
(* The App table as the ORM reads it.                                      *)

Ids(rows) == [i \in 1..Len(rows) |-> rows[i].id]

Names(rows) == [i \in 1..Len(rows) |-> rows[i].name]

\* App.objects.all().order_by('pk')
all_by_pk(cat) == cat

\* App.objects.all() with no ordering: the database may return the rows in any
\* order; every order is enumerated up to MaxPermLen rows, and the primary-key
\* order and its reverse beyond that
all_unordered(cat) ==
    IF Len(cat) <= MaxPermLen
    THEN {[i \in 1..Len(cat) |-> cat[p[i]]] : p \in Orderings(1..Len(cat))}
    ELSE {cat, Reverse(cat)}

\* exact_match with .last() in place of .first()
exact_match_last(cat, query) ==
    LET hits == {i \in 1..Len(cat) : IExact(cat[i].name, query)}
    IN IF hits = {} THEN 0
       ELSE cat[CHOOSE i \in hits : \A j \in hits : i >= j].id

\* App.objects.filter(name__iexact=query).first(): the match with the lowest
\* primary key, 0 for None
exact_match(cat, query) ==
    LET hits == {i \in 1..Len(cat) : IExact(cat[i].name, query)}
    IN IF hits = {} THEN 0
       ELSE cat[CHOOSE i \in hits : \A j \in hits : i <= j].id

\* icontains_by_name without its order_by('name'): primary-key order
icontains_unordered(cat, query) ==
    Ids(SelectSeq(cat, LAMBDA r : IContains(r.name, query)))

\* App.objects.filter(name__icontains=query).order_by('name'), as ids
icontains_by_name(cat, query) ==
    LET hits   == {i \in 1..Len(cat) : IContains(cat[i].name, query)}
        sorted == SortStrings({cat[i].name : i \in hits})
    IN Tabulate([k \in 1..Len(sorted) |->
                    cat[CHOOSE i \in hits : cat[i].name = sorted[k]].id], Len(sorted))

-----------------------------------------------------------------------------
(* The search handlers: AppSearchResultsView.get_queryset and              *)
(* AppListAPIView.get_queryset.                                            *)

\* similar_apps_with_scores.sort(key=lambda x: x[1], reverse=True): a stable
\* sort, so an entry comes after the entries with a greater similarity and
\* after the earlier entries with the same similarity
SortBySim(entries) ==
    LET n == Len(entries)
        rank == Tabulate([i \in 1..n |->
                    Cardinality({j \in 1..n : \/ entries[j].sim > entries[i].sim
                                              \/ entries[j].sim = entries[i].sim /\ j < i})], n)
    IN Tabulate([k \in 1..n |-> entries[CHOOSE i \in 1..n : rank[i] = k - 1]], n)

\* Candidates without the check `i < len(all_apps)`: a row past the end of
\* all_apps yields an entry for no app
CandidatesUnchecked(sims, all_apps, exact_id) ==
    LET kept == {i \in 1..Len(sims) :
                    /\ sims[i] > MainThreshold
                    /\ ~(exact_id # 0 /\ i <= Len(all_apps) /\ all_apps[i].id = exact_id)}
        rows == Tabulate([i \in 1..Len(sims) |->
                    [pos |-> i,
                     id  |-> IF i <= Len(all_apps) THEN all_apps[i].id ELSE 0,
                     sim |-> sims[i]]], Len(sims))
    IN Pick(rows, kept)

\* Candidates without the `continue` that skips the exact match
CandidatesKeepExact(sims, all_apps, exact_id) ==
    LET kept == {i \in 1..Len(sims) : i <= Len(all_apps) /\ sims[i] > MainThreshold}
        rows == Tabulate([i \in 1..Len(sims) |->
                    [pos |-> i,
                     id  |-> IF i <= Len(all_apps) THEN all_apps[i].id ELSE 0,
                     sim |-> sims[i]]], Len(sims))
    IN Pick(rows, kept)

\* Candidates that names row i by the id the row was built from instead of
\* all_apps[i], with no check against the length of all_apps
CandidatesBuiltFrom(sims, all_apps, exact_id) ==
    LET built == tfidf_matrix.built_from
        kept  == {i \in 1..Len(sims) :
                     /\ i <= Len(built)
                     /\ sims[i] > MainThreshold
                     /\ ~(exact_id # 0 /\ built[i] = exact_id)}
        rows  == Tabulate([i \in 1..Len(sims) |->
                     [pos |-> i,
                      id  |-> IF i <= Len(built) THEN built[i] ELSE 0,
                      sim |-> sims[i]]], Len(sims))
    IN Pick(rows, kept)

\* Candidates without the threshold: every row of all_apps but the exact
\* match is kept, whatever its score
CandidatesUnfiltered(sims, all_apps, exact_id) ==
    LET kept == {i \in 1..Len(sims) :
                    /\ i <= Len(all_apps)
                    /\ ~(exact_id # 0 /\ all_apps[i].id = exact_id)}
        rows == Tabulate([i \in 1..Len(sims) |->
                    [pos |-> i,
                     id  |-> IF i <= Len(all_apps) THEN all_apps[i].id ELSE 0,
                     sim |-> sims[i]]], Len(sims))
    IN Pick(rows, kept)

\* the loop over enumerate(cosine_similarities): rows past the end of all_apps
\* are skipped, then rows at or below the threshold, then the exact match
Candidates(sims, all_apps, exact_id) ==
    LET kept == {i \in 1..Len(sims) :
                    /\ i <= Len(all_apps)
                    /\ sims[i] > MainThreshold
                    /\ ~(exact_id # 0 /\ all_apps[i].id = exact_id)}
        rows == Tabulate([i \in 1..Len(sims) |->
                    [pos |-> i,
                     id  |-> IF i <= Len(all_apps) THEN all_apps[i].id ELSE 0,
                     sim |-> sims[i]]], Len(sims))
    IN Pick(rows, kept)

\* VectorSlice with the slice [:50]
VectorSliceFixed(scored, results_list) == Take(scored, ResultCap)

\* the slice appended to results_list
VectorSlice(scored, results_list) == Take(scored, ResultCap - Len(results_list))

\* VectorStage without its try / except: the error leaves the handler
VectorStageUncaught(query, exact_id, all_apps, vectorizer, matrix, results_list) ==
    LET query_vec == transform(vectorizer, <<query>>)
        kernel    == linear_kernel(query_vec, matrix)
        scored    == SortBySim(Candidates(kernel.sims, all_apps, exact_id))
    IN IF kernel.raised
       THEN [raised |-> TRUE, escaped |-> TRUE, sims |-> <<>>, scored |-> <<>>,
             appended |-> <<>>, found |-> FALSE]
       ELSE [raised |-> FALSE, escaped |-> FALSE, sims |-> kernel.sims,
             scored |-> scored,
             appended |-> IF scored # <<>> THEN VectorSlice(scored, results_list) ELSE <<>>,
             found |-> scored # <<>>]

\* step 2: the body of `if tfidf_vectorizer is not None and tfidf_matrix is not None`
\* with its try / except
VectorStage(query, exact_id, all_apps, vectorizer, matrix, results_list) ==
    LET query_vec == transform(vectorizer, <<query>>)
        kernel    == linear_kernel(query_vec, matrix)
        scored    == SortBySim(Candidates(kernel.sims, all_apps, exact_id))
    IN IF kernel.raised
       THEN [raised |-> TRUE, escaped |-> FALSE, sims |-> <<>>, scored |-> <<>>,
             appended |-> <<>>, found |-> FALSE]
       ELSE [raised |-> FALSE, escaped |-> FALSE, sims |-> kernel.sims,
             scored |-> scored,
             appended |-> IF scored # <<>> THEN VectorSlice(scored, results_list) ELSE <<>>,
             found |-> scored # <<>>]

\* FallbackCondition reduced to its second clause
FallbackOnlyWithoutExact(tfidf_results_found, exact_id) ==
    ~(exact_id # 0) /\ ~tfidf_results_found

\* `if not tfidf_results_found or (not exact_match_app and not tfidf_results_found)`
FallbackCondition(tfidf_results_found, exact_id) ==
    ~tfidf_results_found \/ (~(exact_id # 0) /\ ~tfidf_results_found)

\* step 3: append the substring matches that are not in results_list yet
FallbackAppend(results_list, fallback_results) ==
    results_list \o
    Pick(fallback_results,
         {i \in 1..Len(fallback_results) :
             /\ ~Contains(results_list, fallback_results[i])
             /\ \A j \in 1..(i - 1) : fallback_results[j] # fallback_results[i]})

\* UniqueIds with unique_ids and ordered_ids bound to one list, so that every
\* new id is appended to it twice
UniqueIdsAliased(results_list) ==
    LET once == Pick(results_list,
                     {i \in 1..Len(results_list) :
                         \A j \in 1..(i - 1) : results_list[j] # results_list[i]})
    IN [k \in 1..(2 * Len(once)) |-> once[(k + 1) \div 2]]

\* step 4: the ids of results_list, each kept at its first place
UniqueIds(results_list) ==
    Pick(results_list,
         {i \in 1..Len(results_list) :
             \A j \in 1..(i - 1) : results_list[j] # results_list[i]})

\* Case(*[When(pk=pk, then=pos) for pos, pk in enumerate(ordered_ids)]): the
\* position of the first When that matches
preserved(ordered_ids, pk) ==
    CHOOSE pos \in 1..Len(ordered_ids) :
        /\ ordered_ids[pos] = pk
        /\ \A q \in 1..(pos - 1) : ordered_ids[q] # pk

\* Queryset without its order_by(preserved): primary-key order
QuerysetByPk(cat, ordered_ids) ==
    Ids(SelectSeq(cat, LAMBDA r : Contains(ordered_ids, r.id)))

\* App.objects.filter(id__in=ordered_ids).order_by(preserved), as ids
Queryset(cat, ordered_ids) ==
    LET rows   == SelectSeq(cat, LAMBDA r : Contains(ordered_ids, r.id))
        n      == Len(rows)
        key    == Tabulate([i \in 1..n |-> preserved(ordered_ids, rows[i].id)], n)
        rank   == Tabulate([i \in 1..n |->
                      Cardinality({j \in 1..n : key[j] < key[i] \/ (key[j] = key[i] /\ j < i)})], n)
    IN Tabulate([k \in 1..n |-> rows[CHOOSE i \in 1..n : rank[i] = k - 1].id], n)

\* Paginator.num_pages with orphans = 0 and allow_empty_first_page
NumPages(count, per_page) ==
    IF count = 0 THEN 1 ELSE (count + per_page - 1) \div per_page

\* Paginator.page(number).object_list
Page(object_list, per_page, number) ==
    LET bottom == (number - 1) * per_page
        top    == IF bottom + per_page >= Len(object_list)
                  THEN Len(object_list) ELSE bottom + per_page
    IN Slice(object_list, bottom, top)

None == [kind |-> "None"]

NoResp == [view |-> "none"]

\* get_queryset of either view; all_apps is what the view's App.objects.all()
\* query returns
get_queryset(view, raw, cat, all_apps, vectorizer, matrix) ==
    LET query        == Strip(raw)
        exact_id     == exact_match(cat, query)
        after_exact  == IF exact_id # 0 THEN <<exact_id>> ELSE <<>>
        loaded       == vectorizer # None /\ matrix # None
        stage        == IF loaded
                        THEN VectorStage(query, exact_id, all_apps, vectorizer, matrix,
                                         after_exact)
                        ELSE [raised |-> FALSE, escaped |-> FALSE, sims |-> <<>>,
                              scored |-> <<>>, appended |-> <<>>, found |-> FALSE]
        after_vector == after_exact \o Ids(stage.appended)
        fallback     == FallbackCondition(stage.found, exact_id)
        results_list == IF fallback
                        THEN FallbackAppend(after_vector, icontains_by_name(cat, query))
                        ELSE after_vector
        ordered_ids  == UniqueIds(results_list)
    IN IF query = <<>>
       THEN [view |-> view, raw |-> raw, query |-> query, status |-> "ok",
             exact_id |-> 0, loaded |-> FALSE, raised |-> FALSE,
             all_apps |-> <<>>, sims |-> <<>>, scored |-> <<>>, appended |-> <<>>,
             found |-> FALSE, fallback |-> FALSE, results_list |-> <<>>,
             ordered_ids |-> <<>>, queryset |-> Queryset(cat, <<>>)]
       ELSE IF stage.escaped
       THEN [view |-> view, raw |-> raw, query |-> query, status |-> "error",
             exact_id |-> exact_id, loaded |-> loaded, raised |-> TRUE,
             all_apps |-> <<>>, sims |-> <<>>, scored |-> <<>>, appended |-> <<>>,
             found |-> FALSE, fallback |-> FALSE, results_list |-> <<>>,
             ordered_ids |-> <<>>, queryset |-> <<>>]
       ELSE [view |-> view, raw |-> raw, query |-> query, status |-> "ok",
             exact_id |-> exact_id, loaded |-> loaded, raised |-> stage.raised,
             all_apps |-> IF loaded /\ ~stage.raised THEN Ids(all_apps) ELSE <<>>,
             sims |-> stage.sims, scored |-> stage.scored,
             appended |-> stage.appended, found |-> stage.found,
             fallback |-> fallback, results_list |-> results_list,
             ordered_ids |-> ordered_ids, queryset |-> Queryset(cat, ordered_ids)]


-----------------------------------------------------------------------------
(* The suggestion handlers: search_suggestions (web) and                   *)
(* AppSuggestionsAPIView.get_queryset (API).                               *)

\* App.objects.filter(name__icontains=query) with no ordering, as ids: the
\* matching rows in the order scan in which the database returns the table
icontains_scan(scan, query) ==
    Ids(SelectSeq(scan, LAMBDA r : IContains(r.name, query)))

\* TopTen without the slice
TopAll(s) == s

\* the slice [:10]
TopTen(s) == Take(s, SuggestCap)

\* the loop over enumerate(cosine_similarities) of the suggestion handlers:
\* rows past the end of all_apps are skipped, then rows below the threshold
SuggestCandidates(sims, all_apps, threshold) ==
    LET kept == {i \in 1..Len(sims) : i <= Len(all_apps) /\ sims[i] >= threshold}
        rows == Tabulate([i \in 1..Len(sims) |->
                    [pos |-> i,
                     id  |-> IF i <= Len(all_apps) THEN all_apps[i].id ELSE 0,
                     sim |-> sims[i]]], Len(sims))
    IN Pick(rows, kept)

\* Suggest with the rule of the full search: when no row reaches the threshold
\* the substring query is run
SuggestWithFallback(view, raw, min_len, threshold, substring, all_apps, vectorizer, matrix) ==
    LET query  == Strip(raw)
        loaded == vectorizer # None /\ matrix # None
        kernel == linear_kernel(transform(vectorizer, <<query>>), matrix)
        scored == SortBySim(SuggestCandidates(kernel.sims, all_apps, threshold))
        base   == [view |-> view, raw |-> raw, query |-> query, status |-> "ok",
                   loaded |-> FALSE, raised |-> FALSE, all_apps |-> <<>>,
                   sims |-> <<>>, scored |-> <<>>]
    IN IF Len(query) < min_len
       THEN base @@ [path |-> "none", suggestions |-> <<>>]
       ELSE IF Len(query) <= ShortSuggestLen
       THEN base @@ [path |-> "short", suggestions |-> TopTen(substring)]
       ELSE IF ~loaded
       THEN base @@ [path |-> "fallback", suggestions |-> TopTen(substring)]
       ELSE IF kernel.raised
       THEN [base EXCEPT !.loaded = TRUE, !.raised = TRUE]
                @@ [path |-> "fallback", suggestions |-> TopTen(substring)]
       ELSE [base EXCEPT !.loaded = TRUE, !.all_apps = Ids(all_apps),
                         !.sims = kernel.sims, !.scored = scored]
                @@ [path |-> "vector",
                    suggestions |-> IF scored = <<>> THEN TopTen(substring)
                                    ELSE Ids(TopTen(scored))]

\* the body shared by the two handlers: min_len is the shortest query that is
\* answered, substring the ids the handler's icontains query returns, and
\* all_apps what its App.objects.all() query returns
Suggest(view, raw, min_len, threshold, substring, all_apps, vectorizer, matrix) ==
    LET query  == Strip(raw)
        loaded == vectorizer # None /\ matrix # None
        kernel == linear_kernel(transform(vectorizer, <<query>>), matrix)
        scored == SortBySim(SuggestCandidates(kernel.sims, all_apps, threshold))
        base   == [view |-> view, raw |-> raw, query |-> query, status |-> "ok",
                   loaded |-> FALSE, raised |-> FALSE, all_apps |-> <<>>,
                   sims |-> <<>>, scored |-> <<>>]
    IN IF Len(query) < min_len
       THEN base @@ [path |-> "none", suggestions |-> <<>>]
       ELSE IF Len(query) <= ShortSuggestLen
       THEN base @@ [path |-> "short", suggestions |-> TopTen(substring)]
       ELSE IF ~loaded
       THEN base @@ [path |-> "fallback", suggestions |-> TopTen(substring)]
       ELSE IF kernel.raised
       THEN [base EXCEPT !.loaded = TRUE, !.raised = TRUE]
                @@ [path |-> "fallback", suggestions |-> TopTen(substring)]
       ELSE [base EXCEPT !.loaded = TRUE, !.all_apps = Ids(all_apps),
                         !.sims = kernel.sims, !.scored = scored]
                @@ [path |-> "vector", suggestions |-> Ids(TopTen(scored))]

\* search_suggestions(request): scan is the order in which the unordered
\* icontains query sees the table
search_suggestions(raw, cat, scan, vectorizer, matrix) ==
    Suggest("web_suggest", raw, MinSuggestLen, WebSuggestThreshold,
            icontains_scan(scan, Strip(raw)), all_by_pk(cat), vectorizer, matrix)

\* AppSuggestionsAPIView.get_queryset: `if query:` answers every query that is
\* not empty
suggestions_get_queryset(raw, cat, all_apps, vectorizer, matrix) ==
    Suggest("api_suggest", raw, 1, ApiSuggestThreshold,
            icontains_by_name(cat, Strip(raw)), all_apps, vectorizer, matrix)


-----------------------------------------------------------------------------
(* Inputs.                                                                 *)

\* app names an administrator may create: "ab", "AB", "ab cd", "abc"
NamePool == {<<97, 98>>, <<65, 66>>, <<97, 98, 32, 99, 100>>, <<97, 98, 99>>}

\* raw values of the q parameter: " AB ", "ab cd", "cd", "b", " "
RawQueries == {<<32, 65, 66, 32>>, <<97, 98, 32, 99, 100>>, <<99, 100>>, <<98>>, <<32>>}

\* raw values of the q parameter of the suggestion endpoints:
\* " AB " (2 characters once trimmed), "abc" (3), "b ab" (4), "ab cd" and
\* "ab ab" (5)
SuggestQueries ==
    {<<32, 65, 66, 32>>, <<97, 98, 99>>, <<98, 32, 97, 98>>,
     <<97, 98, 32, 99, 100>>, <<97, 98, 32, 97, 98>>}

\* the App column of googleplaystore.csv: "ab", one name "ac" that shares no
\* word with the others, then names "ab xy" and (every third row) "ab ab xy"
\* with a two-letter word xy that differs from row to row
CsvName(k) ==
    LET word == <<97 + (k \div 8), 97 + (k % 8)>>
    IN IF k = 1 THEN <<97, 98>>
       ELSE IF k = 2 THEN word
       ELSE IF k % 3 = 0 THEN <<97, 98, 32, 97, 98, 32>> \o word
       ELSE <<97, 98, 32>> \o word

CsvNames == [k \in 1..BulkSize |-> CsvName(k)]

-----------------------------------------------------------------------------
(* State.                                                                  *)

Absent == [kind |-> "absent"]

Partial == [kind |-> "partial"]

Idle == [pc |-> "idle"]

\* request.user of a request without a session or token
Anonymous == "anon"

\* the accounts of auth_user: two plain users, one with is_staff, one with
\* is_superuser and without is_staff
Accounts == {"alice", "bob", "staff", "root"}

is_authenticated(user) == user # Anonymous

is_staff(user) == user = "staff"

is_superuser(user) == user = "root"

\* Review.user of a row that load_data created (null)
NoUser == "none"

\* a row of googleplaystore_user_reviews.csv as load_data creates it: no user,
\* is_approved at its default
CsvReview(id, app) == [id |-> id, app |-> app, user |-> NoUser, is_approved |-> FALSE]

NoRequest == [endpoint |-> "none"]

\* next_id is the next primary key of core_review and ops the number of review
\* requests so far; in_flight is the approve request that has fetched its
\* review and has not yet saved it; submitted, approved and rejected (the ids
\* that were created by a submit request, approved and rejected by a
\* moderation request) and last (the last review request, its outcome and the
\* table before it) are history fields
NoModeration ==
    [next_id |-> 1, ops |-> 0, in_flight |-> NoRequest, submitted |-> {},
     approved |-> {}, rejected |-> {}, last |-> NoRequest]

Init ==
    /\ catalog = <<>>
    /\ next_id = 1
    /\ writes = 0
    /\ vec_file = Absent
    /\ mat_file = Absent
    /\ cmd = Idle
    /\ builds = 0
    /\ started = FALSE
    /\ starts = 0
    /\ tfidf_vectorizer = None
    /\ tfidf_matrix = None
    /\ load_saw = [vec |-> "none", mat |-> "none"]
    /\ reviews = {}
    /\ moderation = NoModeration
    /\ resp = NoResp

-----------------------------------------------------------------------------
(* Catalog writes.                                                         *)

\* the matrix as it is pickled; built_from (the id of the app each row was
\* computed from) is a history field that no operation reads
Built(matrix, snapshot) ==
    [kind |-> "matrix", ncols |-> matrix.ncols, rows |-> matrix.rows,
     built_from |-> Ids(snapshot)]

\* the vectorizer as it is pickled; built_from is a history field that no
\* operation reads
Fitted(vectorizer, snapshot) ==
    [kind |-> "vectorizer", vocabulary |-> vectorizer.vocabulary,
     idf |-> vectorizer.idf, built_from |-> Ids(snapshot)]

\* AddApp with a rebuild on every catalog write: the two files are rewritten
\* from the new catalog
AddAppRebuilding(name) ==
    LET added      == Append(catalog, [id |-> next_id, name |-> name])
        vectorizer == fit(Names(added))
    IN /\ resp = NoResp
       /\ writes < MaxWrites
       /\ ~Contains(Names(catalog), name)
       /\ catalog' = added
       /\ next_id' = next_id + 1
       /\ writes' = writes + 1
       /\ vec_file' = Fitted(vectorizer, added)
       /\ mat_file' = Built(transform(vectorizer, Names(added)), added)
       /\ UNCHANGED <<cmd, builds, started, starts, tfidf_vectorizer, tfidf_matrix,
                      load_saw, resp, reviews, moderation>>

\* an App row is created (admin site); name is unique
AddApp(name) ==
    /\ resp = NoResp
    /\ writes < MaxWrites
    /\ ~Contains(Names(catalog), name)
    /\ catalog' = Append(catalog, [id |-> next_id, name |-> name])
    /\ next_id' = next_id + 1
    /\ writes' = writes + 1
    /\ UNCHANGED <<vec_file, mat_file, cmd, builds, started, starts,
                   tfidf_vectorizer, tfidf_matrix, load_saw, resp,
                   reviews, moderation>>

\* an App row is deleted (admin site); Review.app is on_delete=CASCADE, so
\* the reviews of the app go with it
DeleteApp(id) ==
    /\ resp = NoResp
    /\ writes < MaxWrites
    /\ Contains(Ids(catalog), id)
    /\ catalog' = SelectSeq(catalog, LAMBDA r : r.id # id)
    /\ writes' = writes + 1
    /\ reviews' = {r \in reviews : r.app # id}
    /\ UNCHANGED <<next_id, vec_file, mat_file, cmd, builds, started, starts,
                   tfidf_vectorizer, tfidf_matrix, load_saw, resp, moderation>>

\* manage.py load_data: the table is cleared and filled from the csv file; it
\* is run on a database nothing was written to, and is its only write
LoadData ==
    /\ resp = NoResp
    /\ writes = 0
    /\ catalog' = [k \in 1..BulkSize |-> [id |-> next_id + k - 1, name |-> CsvNames[k]]]
    /\ next_id' = next_id + BulkSize
    /\ writes' = MaxWrites
    /\ reviews' = {CsvReview(moderation.next_id, next_id)}
    /\ moderation' = [moderation EXCEPT !.next_id = @ + 1, !.last = NoRequest]
    /\ UNCHANGED <<vec_file, mat_file, cmd, builds, started, starts,
                   tfidf_vectorizer, tfidf_matrix, load_saw, resp>>

-----------------------------------------------------------------------------
(* manage.py initialize_tfidf (Command.handle), one action per file-system *)
(* step.                                                                   *)

\* the command ended with CommandError; prev_vec and prev_mat are history
\* fields: the two files as they were when the command started
Failed(prev_vec, prev_mat) ==
    [pc |-> "failed", prev_vec |-> prev_vec, prev_mat |-> prev_mat]

\* the command after its empty-catalog branch ran to its end (the warning
\* "TF-IDF model not initialized and old files removed"); prev_vec and
\* prev_mat are the files the command found
Removed(prev_vec, prev_mat) ==
    [pc |-> "idle", outcome |-> "removed", prev_vec |-> prev_vec, prev_mat |-> prev_mat]

\* the catalog is read and the model fitted; an empty vocabulary makes fit
\* raise, which ends the command before any file is touched
CmdStart ==
    /\ resp = NoResp
    /\ cmd.pc \in {"idle", "failed"}
    /\ builds < MaxBuilds
    /\ builds' = builds + 1
    /\ LET app_names  == Names(all_by_pk(catalog))
           vectorizer == fit(app_names)
       IN cmd' = IF app_names = <<>>
                 THEN [pc |-> "rm_vec", prev_vec |-> vec_file, prev_mat |-> mat_file]
                 ELSE IF vectorizer.kind = "error" THEN Failed(vec_file, mat_file)
                 ELSE [pc |-> "open_vec",
                       prev_vec |-> vec_file, prev_mat |-> mat_file,
                       vectorizer |-> Fitted(vectorizer, all_by_pk(catalog)),
                       matrix |-> Built(transform(vectorizer, app_names),
                                        all_by_pk(catalog))]
    /\ UNCHANGED <<catalog, next_id, writes, vec_file, mat_file, started, starts,
                   tfidf_vectorizer, tfidf_matrix, load_saw, resp,
                   reviews, moderation>>

\* open(TFIDF_VECTORIZER_PATH, 'wb') truncates the file
CmdOpenVec ==
    /\ resp = NoResp
    /\ cmd.pc = "open_vec"
    /\ vec_file' = Partial
    /\ cmd' = [cmd EXCEPT !.pc = "dump_vec"]
    /\ UNCHANGED <<catalog, next_id, writes, mat_file, builds, started, starts,
                   tfidf_vectorizer, tfidf_matrix, load_saw, resp,
                   reviews, moderation>>

\* pickle.dump(vectorizer, f) and the close of the file
CmdDumpVec ==
    /\ resp = NoResp
    /\ cmd.pc = "dump_vec"
    /\ vec_file' = cmd.vectorizer
    /\ cmd' = [cmd EXCEPT !.pc = "open_mat"]
    /\ UNCHANGED <<catalog, next_id, writes, mat_file, builds, started, starts,
                   tfidf_vectorizer, tfidf_matrix, load_saw, resp,
                   reviews, moderation>>

\* open(TFIDF_MATRIX_PATH, 'wb') truncates the file
CmdOpenMat ==
    /\ resp = NoResp
    /\ cmd.pc = "open_mat"
    /\ mat_file' = Partial
    /\ cmd' = [cmd EXCEPT !.pc = "dump_mat"]
    /\ UNCHANGED <<catalog, next_id, writes, vec_file, builds, started, starts,
                   tfidf_vectorizer, tfidf_matrix, load_saw, resp,
                   reviews, moderation>>

\* CmdDumpMat followed by a reload in the running process: the globals are
\* set to the pair that was just written
CmdDumpMatReloading ==
    /\ resp = NoResp
    /\ cmd.pc = "dump_mat"
    /\ mat_file' = cmd.matrix
    /\ cmd' = Idle
    /\ tfidf_vectorizer' = IF started THEN vec_file ELSE tfidf_vectorizer
    /\ tfidf_matrix' = IF started THEN cmd.matrix ELSE tfidf_matrix
    /\ UNCHANGED <<catalog, next_id, writes, vec_file, builds, started, starts,
                   load_saw, resp, reviews, moderation>>

\* pickle.dump(matrix, f) and the close of the file; the command ends
CmdDumpMat ==
    /\ resp = NoResp
    /\ cmd.pc = "dump_mat"
    /\ mat_file' = cmd.matrix
    /\ cmd' = Idle
    /\ UNCHANGED <<catalog, next_id, writes, vec_file, builds, started, starts,
                   tfidf_vectorizer, tfidf_matrix, load_saw, resp,
                   reviews, moderation>>

\* the empty-catalog branch without its first os.remove: the vectorizer file
\* is left as it was
CmdRemoveVecKept ==
    /\ resp = NoResp
    /\ cmd.pc = "rm_vec"
    /\ cmd' = [cmd EXCEPT !.pc = "rm_mat"]
    /\ UNCHANGED <<catalog, next_id, writes, vec_file, mat_file, builds, started,
                   starts, tfidf_vectorizer, tfidf_matrix, load_saw, resp,
                   reviews, moderation>>

\* empty catalog: os.remove(TFIDF_VECTORIZER_PATH) if it exists
CmdRemoveVec ==
    /\ resp = NoResp
    /\ cmd.pc = "rm_vec"
    /\ vec_file' = Absent
    /\ cmd' = [cmd EXCEPT !.pc = "rm_mat"]
    /\ UNCHANGED <<catalog, next_id, writes, mat_file, builds, started, starts,
                   tfidf_vectorizer, tfidf_matrix, load_saw, resp,
                   reviews, moderation>>

\* empty catalog: os.remove(TFIDF_MATRIX_PATH) if it exists; the command ends
CmdRemoveMat ==
    /\ resp = NoResp
    /\ cmd.pc = "rm_mat"
    /\ mat_file' = Absent
    /\ cmd' = Removed(cmd.prev_vec, cmd.prev_mat)
    /\ UNCHANGED <<catalog, next_id, writes, vec_file, builds, started, starts,
                   tfidf_vectorizer, tfidf_matrix, load_saw, resp,
                   reviews, moderation>>

\* a step of the command raises (the database cannot be read, a file cannot
\* be opened, written or removed): handle re-raises it as CommandError, and a
\* file that was already opened for writing stays as the step left it
CmdFail ==
    /\ resp = NoResp
    /\ cmd.pc \in {"open_vec", "dump_vec", "open_mat", "dump_mat", "rm_vec", "rm_mat"}
    /\ cmd' = Failed(cmd.prev_vec, cmd.prev_mat)
    /\ UNCHANGED <<catalog, next_id, writes, vec_file, mat_file, builds, started, starts,
                   tfidf_vectorizer, tfidf_matrix, load_saw, resp,
                   reviews, moderation>>

-----------------------------------------------------------------------------
(* A serving process starts: CoreConfig.ready() loads the pair, and the    *)
(* view modules, imported afterwards, bind the two globals.                *)

\* LoadedPair without the reset of both globals: each file that loads is kept
LoadedPairEach(vec, mat) ==
    <<IF vec # Absent /\ vec # Partial THEN vec ELSE None,
      IF mat # Absent /\ mat # Partial THEN mat ELSE None>>

\* the pair ready() leaves in the globals: both files must exist, and a file
\* that does not unpickle makes both None
LoadedPair(vec, mat) ==
    IF vec # Absent /\ mat # Absent /\ vec # Partial /\ mat # Partial
    THEN <<vec, mat>>
    ELSE <<None, None>>

Ready ==
    /\ starts < MaxStarts
    /\ resp = NoResp
    /\ starts' = starts + 1
    /\ started' = TRUE
    /\ tfidf_vectorizer' = LoadedPair(vec_file, mat_file)[1]
    /\ tfidf_matrix' = LoadedPair(vec_file, mat_file)[2]
    /\ load_saw' = [vec |-> vec_file.kind, mat |-> mat_file.kind]
    /\ UNCHANGED <<catalog, next_id, writes, vec_file, mat_file, cmd, builds, resp,
                   reviews, moderation>>

-----------------------------------------------------------------------------
(* Requests.  A request is answered before the next step is taken: resp  *)
(* holds the answer together with the values the handler computed on the   *)
(* way, and every other operation waits until it has been sent.            *)

\* GET /search/?q=raw
SearchWeb(raw) ==
    /\ started
    /\ resp = NoResp
    /\ resp' = get_queryset("web", raw, catalog, all_by_pk(catalog),
                            tfidf_vectorizer, tfidf_matrix)
    /\ UNCHANGED <<catalog, next_id, writes, vec_file, mat_file, cmd, builds,
                   started, starts, tfidf_vectorizer, tfidf_matrix, load_saw,
                   reviews, moderation>>

\* GET /api/apps/?q=raw
SearchApi(raw) ==
    /\ started
    /\ resp = NoResp
    /\ \E all_apps \in all_unordered(catalog) :
           resp' = get_queryset("api", raw, catalog, all_apps,
                                tfidf_vectorizer, tfidf_matrix)
    /\ UNCHANGED <<catalog, next_id, writes, vec_file, mat_file, cmd, builds,
                   started, starts, tfidf_vectorizer, tfidf_matrix, load_saw,
                   reviews, moderation>>

\* GET /search_suggestions/?q=raw
SuggestWeb(raw) ==
    /\ started
    /\ resp = NoResp
    /\ \E scan \in all_unordered(catalog) :
           resp' = search_suggestions(raw, catalog, scan, tfidf_vectorizer, tfidf_matrix)
    /\ UNCHANGED <<catalog, next_id, writes, vec_file, mat_file, cmd, builds,
                   started, starts, tfidf_vectorizer, tfidf_matrix, load_saw,
                   reviews, moderation>>

\* GET /api/apps/suggestions/?q=raw
SuggestApi(raw) ==
    /\ started
    /\ resp = NoResp
    /\ \E all_apps \in all_unordered(catalog) :
           resp' = suggestions_get_queryset(raw, catalog, all_apps,
                                            tfidf_vectorizer, tfidf_matrix)
    /\ UNCHANGED <<catalog, next_id, writes, vec_file, mat_file, cmd, builds,
                   started, starts, tfidf_vectorizer, tfidf_matrix, load_saw,
                   reviews, moderation>>

\* the response is sent
Respond ==
    /\ resp # NoResp
    /\ resp' = NoResp
    /\ UNCHANGED <<catalog, next_id, writes, vec_file, mat_file, cmd, builds,
                   started, starts, tfidf_vectorizer, tfidf_matrix, load_saw,
                   reviews, moderation>>

Next ==
    \/ \E name \in NamePool : AddApp(name)
    \/ \E id \in 1..MaxWrites : DeleteApp(id)
    \/ LoadData
    \/ CmdStart
    \/ CmdOpenVec
    \/ CmdDumpVec
    \/ CmdOpenMat
    \/ CmdDumpMat
    \/ CmdRemoveVec
    \/ CmdRemoveMat
    \/ CmdFail
    \/ Ready
    \/ \E raw \in RawQueries : SearchWeb(raw)
    \/ \E raw \in RawQueries : SearchApi(raw)
    \/ \E raw \in SuggestQueries : SuggestWeb(raw)
    \/ \E raw \in SuggestQueries : SuggestApi(raw)
    \/ Respond

Spec == Init /\ [][Next]_vars

-----------------------------------------------------------------------------
(* Reviews: submission, the app detail page, and moderation.               *)

\* the reviews app_detail (web) puts on the page of app_id for viewer
app_detail(viewer, app_id) ==
    IF is_authenticated(viewer)
    THEN {r \in reviews : r.app = app_id /\ (r.is_approved \/ r.user = viewer)}
    ELSE {r \in reviews : r.app = app_id /\ r.is_approved}

\* the reviews AppDetailAPIView.retrieve returns for app_id to viewer
retrieve(viewer, app_id) ==
    IF is_authenticated(viewer)
    THEN {r \in reviews : r.app = app_id /\ (r.is_approved \/ r.user = viewer)}
    ELSE {r \in reviews : r.app = app_id /\ r.is_approved}

\* SupervisorRequiredMixin.test_func
test_func(user) == is_authenticated(user) /\ (is_staff(user) \/ is_superuser(user))

\* permission_classes = [IsAuthenticated, IsAdminUser]
IsAdminUser(user) == is_authenticated(user) /\ is_staff(user)

\* a submit request: refused for an anonymous user, 404 for an unknown app,
\* else a new row with is_approved = False
Submit(endpoint, user, app_id) ==
    LET outcome == IF ~is_authenticated(user) THEN "refused"
                   ELSE IF ~Contains(Ids(catalog), app_id) THEN "not_found"
                   ELSE "created"
        row     == [id |-> moderation.next_id, app |-> app_id, user |-> user,
                    is_approved |-> FALSE]
    IN /\ resp = NoResp
       /\ moderation.ops < MaxReviewOps
       /\ reviews' = IF outcome = "created" THEN reviews \cup {row} ELSE reviews
       /\ moderation' =
              [moderation EXCEPT
                  !.ops = @ + 1,
                  !.next_id = IF outcome = "created" THEN @ + 1 ELSE @,
                  !.submitted = IF outcome = "created" THEN @ \cup {row.id} ELSE @,
                  !.last = [endpoint |-> endpoint, user |-> user, action |-> "submit",
                            review_id |-> row.id, outcome |-> outcome,
                            before |-> reviews]]
       /\ UNCHANGED <<catalog, next_id, writes, vec_file, mat_file, cmd, builds,
                      started, starts, tfidf_vectorizer, tfidf_matrix, load_saw, resp>>

\* POST /app/<app_id>/submit_review/ (submit_review, @login_required)
SubmitReviewWeb(user, app_id) == Submit("web", user, app_id)

\* POST /api/apps/<app_id>/reviews/submit/ (ReviewCreateAPIView, IsAuthenticated)
SubmitReviewApi(user, app_id) == Submit("api", user, app_id)

\* a moderation request up to its write: refused without permission, 404 for
\* an unknown review; 'reject' deletes the row, any other action but
\* 'approve' leaves it, and 'approve' sets is_approved on the instance that
\* get_object_or_404 fetched, which review.save() writes in a later step
Moderate(endpoint, permitted, user, review_id, action) ==
    LET found    == \E r \in reviews : r.id = review_id
        instance == CHOOSE r \in reviews : r.id = review_id
        outcome  == IF ~permitted THEN "refused"
                    ELSE IF ~found THEN "not_found"
                    ELSE IF action = "approve" THEN "approving"
                    ELSE IF action = "reject" THEN "rejected"
                    ELSE "invalid"
    IN /\ resp = NoResp
       /\ moderation.ops < MaxReviewOps
       /\ outcome = "approving" => moderation.in_flight = NoRequest
       /\ reviews' = IF outcome = "rejected"
                     THEN {r \in reviews : r.id # review_id}
                     ELSE reviews
       /\ moderation' =
              [moderation EXCEPT
                  !.ops = @ + 1,
                  !.in_flight = IF outcome = "approving"
                                THEN [endpoint |-> endpoint, user |-> user,
                                      review |-> [instance EXCEPT !.is_approved = TRUE]]
                                ELSE @,
                  !.rejected = IF outcome = "rejected" THEN @ \cup {review_id} ELSE @,
                  !.last = [endpoint |-> endpoint, user |-> user, action |-> action,
                            review_id |-> review_id, outcome |-> outcome,
                            before |-> reviews]]
       /\ UNCHANGED <<catalog, next_id, writes, vec_file, mat_file, cmd, builds,
                      started, starts, tfidf_vectorizer, tfidf_matrix, load_saw, resp>>

\* POST /supervisor/review/<review_id>/action/ (ApproveRejectReviewView.post)
ModerateWeb(user, review_id, action) ==
    Moderate("web", test_func(user), user, review_id, action)

\* POST /api/supervisor/reviews/<review_id>/action/ (ApproveRejectReviewAPIView.post)
ModerateApi(user, review_id, action) ==
    Moderate("api", IsAdminUser(user), user, review_id, action)

\* review.save() of an approve request: Model.save() of an instance that has
\* a primary key runs an UPDATE and, when the UPDATE matched no row, an
\* INSERT; the INSERT fails when the app of the review is gone
save ==
    LET review  == moderation.in_flight.review
        stored  == \E r \in reviews : r.id = review.id
        outcome == IF stored THEN "approved"
                   ELSE IF Contains(Ids(catalog), review.app) THEN "approved"
                   ELSE "error"
    IN /\ resp = NoResp
       /\ moderation.in_flight # NoRequest
       /\ reviews' = IF outcome = "approved"
                     THEN {r \in reviews : r.id # review.id} \cup {review}
                     ELSE reviews
       /\ moderation' =
              [moderation EXCEPT
                  !.in_flight = NoRequest,
                  !.approved = IF outcome = "approved" THEN @ \cup {review.id} ELSE @,
                  !.last = [endpoint |-> moderation.in_flight.endpoint,
                            user |-> moderation.in_flight.user, action |-> "approve",
                            review_id |-> review.id, outcome |-> outcome,
                            before |-> reviews]]
       /\ UNCHANGED <<catalog, next_id, writes, vec_file, mat_file, cmd, builds,
                      started, starts, tfidf_vectorizer, tfidf_matrix, load_saw, resp>>

\* the values of the action field: 'approve', 'reject', and anything else
ModerationActions == {"approve", "reject", "other"}

\* a database that holds one app and no review
ReviewInit ==
    /\ catalog = <<[id |-> 1, name |-> <<97, 98>>]>>
    /\ next_id = 2
    /\ writes = MaxWrites
    /\ vec_file = Absent
    /\ mat_file = Absent
    /\ cmd = Idle
    /\ builds = 0
    /\ started = FALSE
    /\ starts = 0
    /\ tfidf_vectorizer = None
    /\ tfidf_matrix = None
    /\ load_saw = [vec |-> "none", mat |-> "none"]
    /\ reviews = {}
    /\ moderation = NoModeration
    /\ resp = NoResp

ReviewNext ==
    \/ \E user \in Accounts \cup {Anonymous}, app_id \in 1..2 :
           SubmitReviewWeb(user, app_id)
    \/ \E user \in Accounts \cup {Anonymous}, app_id \in 1..2 :
           SubmitReviewApi(user, app_id)
    \/ \E user \in Accounts \cup {Anonymous}, review_id \in 1..MaxReviewOps,
          action \in ModerationActions : ModerateWeb(user, review_id, action)
    \/ \E user \in Accounts \cup {Anonymous}, review_id \in 1..MaxReviewOps,
          action \in ModerationActions : ModerateApi(user, review_id, action)
    \/ save

ReviewSpec == ReviewInit /\ [][ReviewNext]_vars



-----------------------------------------------------------------------------
(* Properties.                                                             *)

\* resp answers a search whose query is not empty after trimming
Searched == resp.view \in {"web", "api"} /\ resp.query # <<>>

NoDuplicates(s) == Cardinality(Range(s)) = Len(s)

\* the first position of x in s
FirstIndex(s, x) == CHOOSE i \in 1..Len(s) : s[i] = x /\ \A j \in 1..(i - 1) : s[j] # x

NameOf(id) == catalog[CHOOSE i \in 1..Len(catalog) : catalog[i].id = id].name

\* the ids of the apps whose name equals / contains the query, ignoring case
ExactIds(query) == {catalog[i].id : i \in {j \in 1..Len(catalog) : IExact(catalog[j].name, query)}}

SubstringIds(query) ==
    {catalog[i].id : i \in {j \in 1..Len(catalog) : IContains(catalog[j].name, query)}}

LowestId(S) == CHOOSE x \in S : \A y \in S : x <= y

\* ids is the exact match (when there is one) followed by every other
\* substring match in ascending name order
ExactThenSubstring(ids, query) ==
    LET exact == ExactIds(query)
        first == IF exact = {} THEN 0 ELSE LowestId(exact)
        rest  == IF first = 0 THEN ids ELSE Tail(ids)
    IN /\ first # 0 => (ids # <<>> /\ Head(ids) = first)
       /\ Range(rest) = SubstringIds(query) \ {first}
       /\ NoDuplicates(rest)
       /\ \A i \in 1..(Len(rest) - 1) : StrLess(NameOf(rest[i]), NameOf(rest[i + 1]))

C2_NoDuplicateIds ==
    Searched =>
        /\ NoDuplicates(resp.ordered_ids)
        /\ Range(resp.ordered_ids) = Range(resp.results_list)
        /\ \A i \in 1..(Len(resp.ordered_ids) - 1) :
               FirstIndex(resp.results_list, resp.ordered_ids[i])
                   < FirstIndex(resp.results_list, resp.ordered_ids[i + 1])

\* the exact match also scores above the threshold (it qualifies through both
\* stages) and the substring fallback, which matches it too, ran
C2_Witness ==
    /\ Searched
    /\ resp.exact_id # 0
    /\ \E i \in 1..Len(resp.sims) :
           /\ i <= Len(resp.all_apps)
           /\ resp.all_apps[i] = resp.exact_id
           /\ resp.sims[i] > MainThreshold
    /\ resp.fallback
    /\ Len(resp.ordered_ids) >= 2

\* C3: when the vector stage appended nothing, the result is the exact match
\* (if any) followed by the other apps whose name contains the query, in
\* ascending name order.
C3_FallbackResult ==
    (Searched /\ resp.status = "ok" /\ resp.appended = <<>>) =>
        ExactThenSubstring(resp.ordered_ids, resp.query)

\* a loaded model scored no row above the threshold except the exact match,
\* and the fallback added further apps behind the exact match
C3_Witness ==
    /\ Searched
    /\ resp.loaded /\ ~resp.raised
    /\ resp.exact_id # 0
    /\ resp.appended = <<>>
    /\ Len(resp.ordered_ids) >= 2

\* C4: the substring fallback runs exactly when the vector stage appended no
\* entry, with or without an exact match.
C4_FallbackIffNoVectorEntry ==
    (Searched /\ resp.status = "ok") => (resp.fallback <=> resp.appended = <<>>)

\* no model is loaded, an exact match was found, and the fallback ran
C4_Witness ==
    /\ Searched
    /\ ~resp.loaded
    /\ resp.exact_id # 0
    /\ resp.fallback
    /\ Len(resp.ordered_ids) >= 2


\* C5: the app that search associates with the score of row i is the app
\* whose name produced row i when the model was built.
C5_RowsMapToBuildApps ==
    (Searched /\ resp.loaded /\ ~resp.raised) =>
        \A i \in 1..Len(resp.sims) :
            /\ i <= Len(resp.all_apps)
            /\ resp.all_apps[i] = tfidf_matrix.built_from[i]

\* C6: an error raised while scoring is caught: the search answers, the
\* vector stage contributes nothing, and the result is the exact match (if
\* any) followed by the substring matches.
C6_ScoringErrorCaught ==
    (Searched /\ resp.raised) =>
        /\ resp.status = "ok"
        /\ resp.appended = <<>>
        /\ resp.fallback
        /\ ExactThenSubstring(resp.ordered_ids, resp.query)

\* scoring raised, and the answer is the exact match and a substring match
C6_Witness ==
    /\ Searched
    /\ resp.raised
    /\ resp.exact_id # 0
    /\ Len(resp.ordered_ids) >= 2

\* C7: the entries appended by the vector stage are in descending order of
\* similarity, and entries of equal similarity in ascending order of id, at
\* both search entry points.
C7_TiesByAscendingId ==
    Searched =>
        \A i \in 1..(Len(resp.appended) - 1) :
            \/ resp.appended[i].sim > resp.appended[i + 1].sim
            \/ /\ resp.appended[i].sim = resp.appended[i + 1].sim
               /\ resp.appended[i].id < resp.appended[i + 1].id

\* the rows the vector stage appended
AppendedRows == {resp.appended[k].pos : k \in 1..Len(resp.appended)}

\* the room left in the results buffer when the vector stage runs
Room == ResultCap - (IF resp.exact_id # 0 THEN 1 ELSE 0)

\* C8 (as stated): the vector stage appends exactly the rows whose similarity
\* is above 0.001, minus the row of the exact match.
C8_ExactlyRowsAboveThreshold ==
    (Searched /\ resp.loaded /\ ~resp.raised) =>
        AppendedRows =
            {i \in 1..Len(resp.sims) : resp.sims[i] > MainThreshold}
                \ {i \in 1..Len(resp.all_apps) :
                      resp.exact_id # 0 /\ resp.all_apps[i] = resp.exact_id}

\* the rows that qualify: a catalog app stands at the row's position, the
\* similarity is above the threshold, and the app is not the exact match
QualifyingRows ==
    {i \in 1..Len(resp.sims) :
        /\ i <= Len(resp.all_apps)
        /\ resp.sims[i] > MainThreshold
        /\ ~(resp.exact_id # 0 /\ resp.all_apps[i] = resp.exact_id)}

\* C8 (amended): the vector stage appends only qualifying rows, each once and
\* with its own similarity and app: all of them when they fit in the room
\* left below 50, else the best-ranked ones that fit; a row whose similarity
\* is 0.001 or lower is never appended.
C8_OnlyRowsAboveThreshold ==
    (Searched /\ resp.loaded /\ ~resp.raised) =>
        /\ AppendedRows \subseteq QualifyingRows
        /\ Cardinality(AppendedRows) = Len(resp.appended)
        /\ Len(resp.appended) = Min2(Cardinality(QualifyingRows), Room)
        /\ \A k \in 1..Len(resp.appended) :
               /\ resp.appended[k].sim = resp.sims[resp.appended[k].pos]
               /\ resp.appended[k].id = resp.all_apps[resp.appended[k].pos]
        /\ \A i \in QualifyingRows \ AppendedRows :
               resp.sims[i] <= resp.appended[Len(resp.appended)].sim

\* the vector stage appended a row and left out a row at or below the
\* threshold and the row of the exact match, which scores above it
C8_Witness ==
    /\ Searched
    /\ resp.loaded
    /\ ~resp.raised
    /\ Len(resp.sims) = Len(resp.all_apps)
    /\ resp.appended # <<>>
    /\ resp.exact_id # 0
    /\ \E i \in 1..Len(resp.all_apps) :
           resp.sims[i] > MainThreshold /\ resp.all_apps[i] = resp.exact_id
    /\ \E i \in 1..Len(resp.all_apps) : resp.sims[i] <= MainThreshold

\* C9: the vector stage appends the best-ranked entries, at most 50 minus the
\* size of the buffer, so a result it contributed to has at most 50 ids.
C9_AtMostFifty ==
    (Searched /\ resp.status = "ok") =>
        /\ Len(resp.appended) = Min2(Len(resp.scored), Room)
        /\ resp.appended = SubSeq(resp.scored, 1, Len(resp.appended))
        /\ resp.appended # <<>> => Len(resp.ordered_ids) <= ResultCap

\* more rows qualified than fit behind the exact match: the slice was cut
C9_Witness ==
    /\ Searched
    /\ resp.exact_id # 0
    /\ Len(resp.scored) > Room
    /\ Len(resp.appended) = Room
    /\ Len(resp.ordered_ids) = ResultCap

\* the page sizes in use: paginate_by of the web view, and the page sizes the
\* API can be configured with
PageSizes == (1..MaxPageSize) \cup {paginate_by}

\* C10: for every page size the pages of the returned queryset, in page order,
\* spell the ordered id list: every page but the last is full, and the k-th id
\* of the list is found at its place on its page.
C10_PagesPreserveOrder ==
    (resp.view \in {"web", "api"} /\ resp.status = "ok") =>
        \A per_page \in PageSizes :
            LET ids == resp.ordered_ids
                n   == NumPages(Len(resp.queryset), per_page)
            IN /\ \A p \in 1..n :
                      Len(Page(resp.queryset, per_page, p)) =
                          IF p < n THEN per_page ELSE Len(ids) - (n - 1) * per_page
               /\ \A k \in 1..Len(ids) :
                      Page(resp.queryset, per_page, ((k - 1) \div per_page) + 1)
                          [((k - 1) % per_page) + 1] = ids[k]

\* a web search whose result fills several pages and is not in id order
C10_Witness ==
    /\ resp.view = "web"
    /\ Len(resp.ordered_ids) > paginate_by
    /\ \E k \in 1..(Len(resp.ordered_ids) - 1) :
           resp.ordered_ids[k] > resp.ordered_ids[k + 1]


\* C11: a query that is empty after trimming (only white space) yields an empty
\* result: no stage runs and no app is listed, whatever the catalog and the
\* loaded model are.
C11_EmptyQueryEmptyResult ==
    (resp.view \in {"web", "api"} /\ \A i \in 1..Len(resp.raw) : IsSpace(resp.raw[i])) =>
        /\ resp.status = "ok"
        /\ resp.ordered_ids = <<>>
        /\ resp.queryset = <<>>
        /\ resp.exact_id = 0
        /\ resp.sims = <<>> /\ resp.appended = <<>>
        /\ ~resp.fallback

\* a query of white space was answered while the catalog holds apps and a
\* model is loaded
C11_Witness ==
    /\ resp.view \in {"web", "api"}
    /\ resp.raw # <<>>
    /\ \A i \in 1..Len(resp.raw) : IsSpace(resp.raw[i])
    /\ catalog # <<>>
    /\ tfidf_vectorizer # None /\ tfidf_matrix # None
    /\ resp.queryset = <<>>

\* C12: with an empty catalog every search answers with an empty result and
\* no error, also when a model built from an earlier catalog is still loaded.
C12_EmptyCatalogEmptyResult ==
    (resp.view \in {"web", "api"} /\ catalog = <<>>) =>
        /\ resp.status = "ok"
        /\ resp.ordered_ids = <<>>
        /\ resp.queryset = <<>>

\* the catalog is empty and the loaded model, built from an earlier catalog,
\* scored one of its rows above the threshold
C12_Witness ==
    /\ Searched
    /\ catalog = <<>>
    /\ resp.loaded /\ ~resp.raised
    /\ \E i \in 1..Len(resp.sims) : resp.sims[i] > MainThreshold
    /\ resp.ordered_ids = <<>>


\* resp answers a suggestion request
Suggested == resp.view \in {"web_suggest", "api_suggest"}

\* ids are the apps whose name contains the query ignoring case, in ascending
\* name order, cut after the first 10
AlphabeticalTopTen(ids, query) ==
    /\ Range(ids) \subseteq SubstringIds(query)
    /\ Len(ids) = Min2(SuggestCap, Cardinality(SubstringIds(query)))
    /\ \A i \in 1..(Len(ids) - 1) : StrLess(NameOf(ids[i]), NameOf(ids[i + 1]))
    /\ \A id \in SubstringIds(query) \ Range(ids) :
           \A i \in 1..Len(ids) : StrLess(NameOf(ids[i]), NameOf(id))

\* C13: a suggestion query shorter than 3 characters after trimming gets no
\* suggestion, at the web and at the API suggestion endpoint.
C13_ShortQueryNoSuggestions ==
    (Suggested /\ Len(resp.query) < MinSuggestLen) => resp.suggestions = <<>>

\* C14: for a suggestion query of 3 or 4 characters the model is not consulted
\* and the suggestions are the names containing the query, in alphabetical
\* order, cut after 10, at both suggestion endpoints.
C14_ShortQuerySubstringOnly ==
    (Suggested /\ Len(resp.query) \in MinSuggestLen..ShortSuggestLen) =>
        /\ resp.path = "short"
        /\ resp.sims = <<>>
        /\ AlphabeticalTopTen(resp.suggestions, resp.query)

\* C15: for a suggestion query of 5 or more characters scored without error,
\* the suggestions are the rows whose similarity is at least 0.1, in
\* descending order of similarity, cut after 10, at both suggestion endpoints.
C15_SuggestionThreshold ==
    (Suggested /\ resp.path = "vector") =>
        LET meets == {i \in 1..Len(resp.sims) :
                         i <= Len(resp.all_apps) /\ resp.sims[i] >= WebSuggestThreshold}
            n     == Len(resp.suggestions)
        IN /\ n = Min2(SuggestCap, Cardinality(meets))
           /\ \A k \in 1..n :
                  /\ resp.scored[k].pos \in meets
                  /\ resp.scored[k].id = resp.suggestions[k]
           /\ \A k \in 1..(n - 1) : resp.scored[k].sim >= resp.scored[k + 1].sim

\* C16: for a suggestion query of 5 or more characters, when no model is
\* loaded or scoring raises, no error reaches the caller and the suggestions
\* are the names containing the query, in alphabetical order, cut after 10.
C16_SuggestionFallback ==
    (Suggested /\ Len(resp.query) > ShortSuggestLen /\ (~resp.loaded \/ resp.raised)) =>
        /\ resp.status = "ok"
        /\ resp.path = "fallback"
        /\ AlphabeticalTopTen(resp.suggestions, resp.query)

\* C17: a suggestion response never holds more than 10 names, on any path.
C17_AtMostTenSuggestions ==
    Suggested => Len(resp.suggestions) <= SuggestCap

\* more than 10 rows met the threshold and 10 were suggested
C17_Witness ==
    /\ Suggested
    /\ resp.path = "vector"
    /\ Len(resp.scored) > SuggestCap
    /\ Len(resp.suggestions) = SuggestCap


\* C18: after the startup load the process holds both the vectorizer and the
\* matrix when both files were there and loaded, and neither of them when a
\* file was missing or did not load; startup completes either way.
C18_LoadAllOrNothing ==
    started =>
        IF load_saw.vec = "vectorizer" /\ load_saw.mat = "matrix"
        THEN tfidf_vectorizer # None /\ tfidf_matrix # None
        ELSE tfidf_vectorizer = None /\ tfidf_matrix = None

\* the vectorizer file loaded, the matrix file was truncated, and the process
\* started with no model
C18_Witness ==
    /\ started
    /\ load_saw.vec = "vectorizer"
    /\ load_saw.mat = "partial"
    /\ tfidf_vectorizer = None
    /\ tfidf_matrix = None

\* C19: after a rebuild that ended with a command error, the two artifact
\* files are what they were before the rebuild started.
C19_FailedRebuildLeavesPair ==
    cmd.pc = "failed" => (vec_file = cmd.prev_vec /\ mat_file = cmd.prev_mat)

\* C20: a load never finds a partially written file, and the vectorizer and
\* the matrix it loads come from the same build.
C20_LoadNeverMixed ==
    started =>
        /\ load_saw.vec # "partial"
        /\ load_saw.mat # "partial"
        /\ tfidf_vectorizer # None =>
               tfidf_vectorizer.built_from = tfidf_matrix.built_from



-----------------------------------------------------------------------------
(* Every operation side by side: catalog writes, the rebuild command,      *)
(* process starts, searches, suggestions and reviews.                      *)

\* a database that holds one app; one catalog write, one run of the command,
\* one process start and two review requests are left
FrameInit ==
    /\ catalog = <<[id |-> 1, name |-> <<97, 98>>]>>
    /\ next_id = 2
    /\ writes = MaxWrites - 1
    /\ vec_file = Absent
    /\ mat_file = Absent
    /\ cmd = Idle
    /\ builds = MaxBuilds - 1
    /\ started = FALSE
    /\ starts = MaxStarts - 1
    /\ tfidf_vectorizer = None
    /\ tfidf_matrix = None
    /\ load_saw = [vec |-> "none", mat |-> "none"]
    /\ reviews = {}
    /\ moderation = [NoModeration EXCEPT !.ops = MaxReviewOps - 2]
    /\ resp = NoResp

FrameNext ==
    \/ \E name \in NamePool : AddApp(name)
    \/ \E id \in 1..MaxWrites : DeleteApp(id)
    \/ CmdStart
    \/ CmdOpenVec
    \/ CmdDumpVec
    \/ CmdOpenMat
    \/ CmdDumpMat
    \/ CmdRemoveVec
    \/ CmdRemoveMat
    \/ CmdFail
    \/ Ready
    \/ \E raw \in RawQueries : SearchWeb(raw)
    \/ \E raw \in RawQueries : SearchApi(raw)
    \/ \E raw \in SuggestQueries : SuggestWeb(raw)
    \/ \E raw \in SuggestQueries : SuggestApi(raw)
    \/ Respond
    \/ \E user \in {"alice", Anonymous} : SubmitReviewWeb(user, 1)
    \/ \E user \in {"alice", Anonymous} : SubmitReviewApi(user, 1)
    \/ \E user \in {"alice", "staff"}, action \in ModerationActions :
           ModerateWeb(user, 1, action)
    \/ \E user \in {"alice", "staff"}, action \in ModerationActions :
           ModerateApi(user, 1, action)
    \/ save

FrameSpec == FrameInit /\ [][FrameNext]_vars

-----------------------------------------------------------------------------
(* The catalog of the documented example, served with and without a model. *)

\* [(1, "Facebook"), (2, "Facebook Lite"), (3, "Messenger")]
ExampleCatalog ==
    <<[id |-> 1, name |-> <<70, 97, 99, 101, 98, 111, 111, 107>>],
      [id |-> 2, name |-> <<70, 97, 99, 101, 98, 111, 111, 107, 32, 76, 105, 116, 101>>],
      [id |-> 3, name |-> <<77, 101, 115, 115, 101, 110, 103, 101, 114>>]>>

\* raw values of the q parameter: "facebook", " Facebook ", "lite"
ExampleQueries ==
    {<<102, 97, 99, 101, 98, 111, 111, 107>>,
     <<32, 70, 97, 99, 101, 98, 111, 111, 107, 32>>,
     <<108, 105, 116, 101>>}

\* the example catalog is stored, no artifact exists, no process runs
ExampleInit ==
    /\ catalog = ExampleCatalog
    /\ next_id = 4
    /\ writes = MaxWrites
    /\ vec_file = Absent
    /\ mat_file = Absent
    /\ cmd = Idle
    /\ builds = 0
    /\ started = FALSE
    /\ starts = 0
    /\ tfidf_vectorizer = None
    /\ tfidf_matrix = None
    /\ load_saw = [vec |-> "none", mat |-> "none"]
    /\ reviews = {}
    /\ moderation = NoModeration
    /\ resp = NoResp

\* the catalog stays as it is: rebuilds, process starts and searches
ExampleNext ==
    \/ CmdStart
    \/ CmdOpenVec
    \/ CmdDumpVec
    \/ CmdOpenMat
    \/ CmdDumpMat
    \/ Ready
    \/ \E raw \in ExampleQueries : SearchWeb(raw)
    \/ \E raw \in ExampleQueries : SearchApi(raw)
    \/ Respond

ExampleSpec == ExampleInit /\ [][ExampleNext]_vars

-----------------------------------------------------------------------------
(* Reviews: lifecycle and moderation rights.                               *)

\* the users who may open a page: every account and the anonymous user
Viewers == Accounts \cup {Anonymous}

\* C29 (the part that holds): a review that a submit request created is
\* stored unapproved until an approve request saved it, and while unapproved
\* it is on the app detail page (web and API) of its author only.
C29_PendingOnlyToAuthor ==
    \A r \in reviews :
        /\ (r.id \in moderation.submitted /\ r.id \notin moderation.approved)
               => ~r.is_approved
        /\ ~r.is_approved =>
               \A viewer \in Viewers :
                   (r \in app_detail(viewer, r.app) \/ r \in retrieve(viewer, r.app))
                       => viewer = r.user

\* C29: a review that a reject request removed is removed for good: no row
\* with its id is stored afterwards, so no one sees it.
C29_RejectRemovesPermanently ==
    \A id \in moderation.rejected :
        /\ ~\E r \in reviews : r.id = id
        /\ \A viewer \in Viewers, app_id \in Range(Ids(catalog)) :
               ~\E r \in app_detail(viewer, app_id) : r.id = id
\* the last review request was a moderation request
Moderated ==
    /\ moderation.last # NoRequest
    /\ moderation.last.action # "submit"

\* C30 (the part that holds): a moderation request that was refused, or whose
\* action is neither 'approve' nor 'reject', leaves the table of reviews as it
\* was, and every approve or reject that went through came from an
\* authenticated account with is_staff or is_superuser.
C30_RefusedLeavesReview ==
    Moderated =>
        /\ moderation.last.outcome \in {"refused", "invalid"}
               => reviews = moderation.last.before
        /\ moderation.last.outcome \in {"approving", "approved", "rejected"}
               => /\ is_authenticated(moderation.last.user)
                  /\ is_staff(moderation.last.user) \/ is_superuser(moderation.last.user)

\* C30: the web and the API moderation endpoints admit the same users: at
\* either endpoint a request is refused exactly when its user is not an
\* authenticated staff or superuser account.
C30_EndpointsAdmitSameUsers ==
    Moderated =>
        (moderation.last.outcome = "refused"
            <=> ~(/\ is_authenticated(moderation.last.user)
                  /\ is_staff(moderation.last.user) \/ is_superuser(moderation.last.user)))
-----------------------------------------------------------------------------
(* The rebuild command and the serving process.                            *)

\* the last run of the command took the empty-catalog branch and ended
RemovedRan == cmd.pc = "idle" /\ "outcome" \in DOMAIN cmd

\* C21: after the rebuild command ran against an empty catalog neither
\* artifact file exists, whatever was stored before, and a load at that point
\* leaves both globals None.
C21_EmptyRebuildRemovesBoth ==
    RemovedRan =>
        /\ vec_file = Absent
        /\ mat_file = Absent
        /\ LoadedPair(vec_file, mat_file) = <<None, None>>

\* an empty-catalog rebuild ended that had found a complete pair from an
\* earlier build, and a process started after it with no model
C21_Witness ==
    /\ RemovedRan
    /\ cmd.prev_vec.kind = "vectorizer"
    /\ cmd.prev_mat.kind = "matrix"
    /\ catalog = <<>>
    /\ started
    /\ tfidf_vectorizer = None
    /\ tfidf_matrix = None
    /\ load_saw = [vec |-> "absent", mat |-> "absent"]
\* a web search was answered by a process that serves the complete pair of
\* the previous build while the command, run again on the catalog that pair
\* was built from, holds the pair of the new build
RebuiltUnchanged ==
    /\ Searched
    /\ resp.view = "web"
    /\ cmd.pc \in {"open_vec", "dump_vec", "open_mat", "dump_mat"}
    /\ cmd.prev_vec.kind = "vectorizer"
    /\ cmd.prev_mat.kind = "matrix"
    /\ tfidf_vectorizer = cmd.prev_vec
    /\ tfidf_matrix = cmd.prev_mat
    /\ catalog # <<>>
    /\ cmd.prev_vec.built_from = Ids(all_by_pk(catalog))
    /\ cmd.prev_mat.built_from = Ids(all_by_pk(catalog))
    /\ cmd.vectorizer.built_from = Ids(all_by_pk(catalog))

-----------------------------------------------------------------------------
(* The documented example.                                                 *)

\* the web search answered the query "facebook", in any case and padding
FacebookSearched ==
    /\ Searched
    /\ resp.view = "web"
    /\ LowerStr(resp.query) = <<102, 97, 99, 101, 98, 111, 111, 107>>

\* C24: on the catalog [(1, "Facebook"), (2, "Facebook Lite"),
\* (3, "Messenger")] the web search for "facebook" returns the ordered ids
\* [1, 2], with the model built from that catalog loaded and with no model
\* loaded alike.
C24_FacebookExample ==
    FacebookSearched =>
        /\ resp.status = "ok"
        /\ resp.ordered_ids = <<1, 2>>
        /\ resp.loaded => tfidf_matrix.built_from = <<1, 2, 3>>

\* "facebook" was answered with the model loaded: id 1 is the exact match and
\* id 2 comes from the vector stage, row 3 scoring 0
C24_Witness ==
    /\ FacebookSearched
    /\ resp.loaded
    /\ ~resp.raised
    /\ resp.exact_id = 1
    /\ Ids(resp.appended) = <<2>>
    /\ ~resp.fallback
    /\ resp.sims[3] = 0
-----------------------------------------------------------------------------
(* The model of a serving process.                                         *)

\* the command is writing a pair that differs from the pair it found
WritingNewPair ==
    /\ cmd.pc \in {"open_vec", "dump_vec", "open_mat", "dump_mat"}
    /\ cmd.prev_vec # cmd.vectorizer \/ cmd.prev_mat # cmd.matrix

-----------------------------------------------------------------------------
(* A model that is stale relative to the catalog.                          *)

\* a search was answered with a loaded model that was built from another
\* catalog than the one stored now
StaleSearched ==
    /\ Searched
    /\ resp.loaded
    /\ tfidf_matrix.built_from # Ids(all_by_pk(catalog))

\* the positions of all_apps that have no row in the model
BeyondLastRow == {j \in 1..Len(resp.all_apps) : j > Len(resp.sims)}

\* C26: a search with a stale model ends without error and returns only ids
\* of the current catalog; a row at or past the catalog size is never
\* appended; an app past the last row is never appended by the vector stage,
\* and is in the result only as the exact match or through the fallback.
C26_StaleModelSafe ==
    StaleSearched =>
        /\ resp.status = "ok"
        /\ Range(resp.ordered_ids) \subseteq Range(Ids(catalog))
        /\ \A k \in 1..Len(resp.appended) :
               /\ resp.appended[k].pos <= Len(resp.all_apps)
               /\ resp.appended[k].pos <= Len(resp.sims)
               /\ resp.appended[k].id = resp.all_apps[resp.appended[k].pos]
        /\ \A j \in BeyondLastRow :
               /\ ~Contains(Ids(resp.appended), resp.all_apps[j])
               /\ Contains(resp.ordered_ids, resp.all_apps[j])
                      => \/ resp.all_apps[j] = resp.exact_id
                         \/ resp.fallback /\ resp.all_apps[j] \in SubstringIds(resp.query)

\* a stale model with fewer rows than the catalog has apps: the vector stage
\* appended an app that has a row, and an app past the last row is in the
\* result as the exact match
C26_Witness ==
    /\ StaleSearched
    /\ ~resp.raised
    /\ resp.appended # <<>>
    /\ \E j \in BeyondLastRow :
           /\ resp.all_apps[j] = resp.exact_id
           /\ Contains(resp.ordered_ids, resp.all_apps[j])
-----------------------------------------------------------------------------
(* Suggestions without a qualifying row.                                   *)

\* the threshold of the handler that answered
SuggestThreshold ==
    IF resp.view = "web_suggest" THEN WebSuggestThreshold ELSE ApiSuggestThreshold

\* a suggestion query of 5 or more characters was scored without error and
\* no row that has an app reached the threshold
NothingSuggested ==
    /\ Suggested
    /\ Len(resp.query) > ShortSuggestLen
    /\ resp.loaded
    /\ ~resp.raised
    /\ \A i \in 1..Len(resp.sims) :
           i <= Len(resp.all_apps) => resp.sims[i] < SuggestThreshold

\* C27: a suggestion query of 5 or more characters that is scored without
\* error and finds no row at the threshold is answered with the empty list,
\* whether or not app names contain the query.
C27_NoFallbackAfterScoring ==
    NothingSuggested => resp.suggestions = <<>>

\* no row reached the threshold although the catalog holds a name that
\* contains the query
C27_Witness ==
    /\ NothingSuggested
    /\ SubstringIds(resp.query) # {}
-----------------------------------------------------------------------------
(* The web views against the REST views.                                   *)

\* what the web search view returns for the request the REST view answered
WebSearchAnswer ==
    get_queryset("web", resp.raw, catalog, all_by_pk(catalog),
                 tfidf_vectorizer, tfidf_matrix)

\* what the web suggestion view can return for the request the REST view
\* answered, one answer for each order of its unordered scan
WebSuggestAnswers ==
    {search_suggestions(resp.raw, catalog, scan, tfidf_vectorizer,
                        tfidf_matrix).suggestions : scan \in all_unordered(catalog)}

\* C28: the REST search view returns the ordered ids the web search view
\* returns for the same query, catalog and model, and the REST suggestion
\* view returns a list the web suggestion view returns for the same query.
C28_ViewsEquivalent ==
    /\ (Searched /\ resp.view = "api") =>
           /\ resp.status = WebSearchAnswer.status
           /\ resp.ordered_ids = WebSearchAnswer.ordered_ids
    /\ resp.view = "api_suggest" => resp.suggestions \in WebSuggestAnswers
-----------------------------------------------------------------------------
(* What each operation leaves alone.                                       *)

\* C23: a step of a search or a suggestion, of a review submission or
\* moderation, or of a catalog write leaves the two artifact files and the
\* two globals of the serving process as they are, and a step of a search or
\* a suggestion leaves the catalog (and the reviews) as they are.
C23_OnlyRebuildChangesArtifact ==
    [][/\ (resp' # resp \/ moderation' # moderation \/ reviews' # reviews
              \/ catalog' # catalog \/ writes' # writes)
          => UNCHANGED <<vec_file, mat_file, tfidf_vectorizer, tfidf_matrix>>
       /\ resp' # resp => UNCHANGED <<catalog, reviews>>]_vars

\* a search or suggestion is answered with the pair that the one run of the
\* command stored, after a catalog write and an approved review
C23_Witness ==
    /\ Searched \/ Suggested
    /\ resp.loaded
    /\ vec_file.kind = "vectorizer"
    /\ mat_file.kind = "matrix"
    /\ tfidf_vectorizer = vec_file
    /\ tfidf_matrix = mat_file
    /\ mat_file.built_from = <<1>>
    /\ Ids(catalog) # <<1>>
    /\ moderation.approved # {}
====
